---------------------------- MODULE Spec2Model ----------------------------
(***************************************************************************)
(* Model of the segmented heat-bed controller firmware (Arduino Mega).     *)
(*                                                                         *)
(* The repository holds several copies of the same functions.  The model   *)
(* follows, for every function, the definition with a real body in the     *)
(* compiled sources (the sketch src/unnamed/part_001, the command module   *)
(* src/unnamed/part_002, src/tempControl.cpp, src/Safety.cpp,              *)
(* src/unnamed/part_000).  Where the compiled sources only hold a          *)
(* placeholder body ("// Implementation of ... function": activateSegment, *)
(* activateAllSegments, deactivateSegment, configurePWMRange) the body is  *)
(* the one of the monolithic sketch kept in src/Codigo.txt.                *)
(*                                                                         *)
(* float values are modelled as exact rationals <<n, d>> (d > 0, lowest    *)
(* terms) extended with the IEEE specials NaN = <<0,0>>, +inf = <<1,0>>,   *)
(* -inf = <<-1,0>>; rounding is not modelled.  Text is modelled as a       *)
(* sequence of one-character strings.  The target is an AVR: int is 16     *)
(* bits wide, long is 32 bits wide.                                        *)
(***************************************************************************)
EXTENDS Integers, Sequences, FiniteSets, TLC

(***************************************************************************)
(* float arithmetic                                                        *)
(***************************************************************************)
Abs(x) == IF x < 0 THEN -x ELSE x

Sign(x) == IF x < 0 THEN -1 ELSE IF x > 0 THEN 1 ELSE 0

RECURSIVE GCD(_, _)
GCD(a, b) == IF b = 0 THEN a ELSE GCD(b, a % b)

\* n/d in lowest terms with a positive denominator; x/0 is an IEEE special
Frac(n, d) ==
    IF d = 0 THEN <<Sign(n), 0>>
    ELSE LET g == GCD(Abs(n), Abs(d))
             s == Sign(d)
         IN  <<(s * n) \div g, (s * d) \div g>>

F(n) == <<n, 1>>

NaN == <<0, 0>>

IsNaN(x) == x = NaN

IsInf(x) == x[2] = 0 /\ x[1] # 0

IsFinite(x) == x[2] # 0

FNeg(x) == <<-x[1], x[2]>>

FAdd(x, y) ==
    IF IsNaN(x) \/ IsNaN(y) THEN NaN
    ELSE IF IsInf(x) /\ IsInf(y) THEN (IF x = y THEN x ELSE NaN)
    ELSE IF IsInf(x) THEN x
    ELSE IF IsInf(y) THEN y
    ELSE Frac(x[1] * y[2] + y[1] * x[2], x[2] * y[2])

FSub(x, y) == FAdd(x, FNeg(y))

FMul(x, y) ==
    IF IsNaN(x) \/ IsNaN(y) THEN NaN
    ELSE IF IsInf(x) \/ IsInf(y)
         THEN <<Sign(x[1]) * Sign(y[1]), 0>>
    ELSE Frac(x[1] * y[1], x[2] * y[2])

FDiv(x, y) ==
    IF IsNaN(x) \/ IsNaN(y) THEN NaN
    ELSE IF IsInf(x) THEN (IF IsInf(y) THEN NaN
                           ELSE <<x[1] * (IF y[1] < 0 THEN -1 ELSE 1), 0>>)
    ELSE IF IsInf(y) THEN F(0)
    ELSE IF y[1] = 0 THEN <<Sign(x[1]), 0>>
    ELSE Frac(x[1] * y[2], x[2] * y[1])

\* x < y; every comparison with NaN is false
FLt(x, y) ==
    IF IsNaN(x) \/ IsNaN(y) THEN FALSE
    ELSE IF IsInf(x) \/ IsInf(y)
         THEN (IF IsInf(x) /\ IsInf(y) THEN x[1] < y[1]
               ELSE IF IsInf(x) THEN x[1] < 0
               ELSE y[1] > 0)
    ELSE x[1] * y[2] < y[1] * x[2]

FGt(x, y) == FLt(y, x)

FEq(x, y) == ~IsNaN(x) /\ ~IsNaN(y) /\ x = y

\* conversion of a finite float to long: truncation toward zero
FTrunc(x) == Sign(x[1]) * (Abs(x[1]) \div x[2])


(***************************************************************************)
(* Arduino String: text is a sequence of one-character strings, indexed    *)
(* from 0 as in the source                                                 *)
(***************************************************************************)
CharAt(s, k) == s[k + 1]

IsSpace(c) == c = " "

Digits == <<"0", "1", "2", "3", "4", "5", "6", "7", "8", "9">>

IsDigit(c) == \E k \in 1..10 : Digits[k] = c

DigitVal(c) == (CHOOSE k \in 1..10 : Digits[k] = c) - 1

\* String::trim
Trim(s) ==
    LET keep == {k \in 1..Len(s) : ~IsSpace(s[k])}
    IN  IF keep = {} THEN <<>>
        ELSE LET lo == CHOOSE k \in keep : \A j \in keep : k <= j
                 hi == CHOOSE k \in keep : \A j \in keep : k >= j
             IN  SubSeq(s, lo, hi)

\* String::startsWith
StartsWith(s, p) == Len(p) <= Len(s) /\ SubSeq(s, 1, Len(p)) = p

\* an int handed to an unsigned int parameter (16 bits on the AVR)
AsUnsigned(v) == v % 65536

\* String::substring(left, right), both unsigned int
Substring(s, left, right) ==
    LET a  == AsUnsigned(left)
        b  == AsUnsigned(right)
        lo == IF a > b THEN b ELSE a
        hi == IF a > b THEN a ELSE b
        h  == IF hi > Len(s) THEN Len(s) ELSE hi
    IN  IF lo >= Len(s) THEN <<>> ELSE SubSeq(s, lo + 1, h)

\* String::substring(left)
SubstringFrom(s, left) == Substring(s, left, Len(s))

\* String::indexOf(" ", from)
IndexOfSpace(s, from) ==
    LET f    == AsUnsigned(from)
        hits == {k \in 0..(Len(s) - 1) : k >= f /\ IsSpace(CharAt(s, k))}
    IN  IF hits = {} THEN -1
        ELSE CHOOSE k \in hits : \A j \in hits : k <= j

\* String::lastIndexOf(" ", from)
LastIndexOfSpaceFrom(s, from) ==
    LET f0   == AsUnsigned(from)
        f    == IF f0 >= Len(s) THEN Len(s) - 1 ELSE f0
        hits == {k \in 0..(Len(s) - 1) : k <= f /\ IsSpace(CharAt(s, k))}
    IN  IF hits = {} THEN -1
        ELSE CHOOSE k \in hits : \A j \in hits : k >= j

\* String::lastIndexOf(" ")
LastIndexOfSpace(s) == LastIndexOfSpaceFrom(s, Len(s) - 1)

\* the value of the leading run of digits of s
RECURSIVE DigitRun(_, _)
DigitRun(s, acc) ==
    IF s = <<>> \/ ~IsDigit(Head(s)) THEN acc
    ELSE DigitRun(Tail(s), 10 * acc + DigitVal(Head(s)))

RECURSIVE SkipSpaces(_)
SkipSpaces(s) == IF s # <<>> /\ IsSpace(Head(s)) THEN SkipSpaces(Tail(s)) ELSE s

\* atol: leading white space, an optional sign, then digits
Atol(s) ==
    LET t == SkipSpaces(s)
    IN  IF t = <<>> THEN 0
        ELSE IF Head(t) = "-" THEN -DigitRun(Tail(t), 0)
        ELSE IF Head(t) = "+" THEN DigitRun(Tail(t), 0)
        ELSE DigitRun(t, 0)

\* a long stored into an int: the low 16 bits, two's complement
LongToInt(v) ==
    LET m == v % 65536
    IN  IF m >= 32768 THEN m - 65536 ELSE m

\* int n = String::toInt()
ToInt(s) == LongToInt(Atol(s))

\* float x = String::toFloat(), for text without a fraction part
ToFloat(s) == F(Atol(s))


(***************************************************************************)
(* Program constants                                                       *)
(***************************************************************************)
NUM_SEGMENTS == 16

NUM_SECTIONS == 4

readInterval == 1000

DEBUG_INTERVAL == 5000

SAFETY_TEMP_MAX == 120

TEMP_HYSTERESIS == 2

PID_OUTPUT_THRESHOLD == Frac(1, 2)

pidKp == F(2)

pidKi == Frac(1, 2)

pidKd == F(1)

\* the sentinel "error" temperature
ERROR_TEMP == -999

\* the fixed default of the section aggregator
DEFAULT_TEMP == 25

tempTable ==
    << <<1, 300>>, <<200, 250>>, <<300, 200>>, <<400, 150>>, <<500, 120>>,
       <<600, 90>>, <<700, 60>>, <<800, 30>>, <<900, 10>>, <<1023, 0>> >>

tempTableSize == Len(tempTable)

Segments == 0..(NUM_SEGMENTS - 1)

Sections == 0..(NUM_SECTIONS - 1)

\* digital pin levels; the relay board is active-low
LOW == "LOW"

HIGH == "HIGH"

(***************************************************************************)
(* C integer helpers                                                       *)
(***************************************************************************)
\* C integer division truncates toward zero
CDiv(a, b) == Sign(a) * Sign(b) * (Abs(a) \div Abs(b))

\* Arduino map(long, long, long, long, long)
Map(x, in_min, in_max, out_min, out_max) ==
    CDiv((x - in_min) * (out_max - out_min), in_max - in_min) + out_min

\* Arduino constrain macro on int
Constrain(amt, low, high) ==
    IF amt < low THEN low ELSE IF amt > high THEN high ELSE amt

\* Arduino constrain macro on float: every comparison with NaN is false
FConstrain(amt, low, high) ==
    IF FLt(amt, low) THEN low ELSE IF FGt(amt, high) THEN high ELSE amt

(***************************************************************************)
(* readTemperature: the lookup table and the sensor cache.  g is the       *)
(* record of the program's globals, t is millis(), raw is analogRead().    *)
(***************************************************************************)
\* while (tempTable[i][0] < analogValue && i < tempTableSize - 1) i++;
RECURSIVE TableScan(_, _)
TableScan(i, raw) ==
    IF tempTable[i + 1][1] < raw /\ i < tempTableSize - 1
    THEN TableScan(i + 1, raw)
    ELSE i

\* pgm_read_word(&tempTable[k][c]): for k = -1 the two words that the build
\* has put in front of the table in flash
TableWord(g, k, c) ==
    IF k >= 0 /\ k < tempTableSize THEN tempTable[k + 1][c + 1]
    ELSE g.flashBeforeTable[c + 1]

\* the interpolation with the quotient taken in integers
InterpolateInIntegers(g, raw) ==
    LET i == TableScan(0, raw)
    IN  F(TableWord(g, i - 1, 1)
          + CDiv((raw - TableWord(g, i - 1, 0))
                    * (TableWord(g, i, 1) - TableWord(g, i - 1, 1)),
                 TableWord(g, i, 0) - TableWord(g, i - 1, 0)))

\* linear interpolation between entries i-1 and i
Interpolate(g, raw) ==
    LET i        == TableScan(0, raw)
        adcHigh  == F(TableWord(g, i, 0))
        tempHigh == F(TableWord(g, i, 1))
        adcLow   == F(TableWord(g, i - 1, 0))
        tempLow  == F(TableWord(g, i - 1, 1))
    IN  FAdd(tempLow,
             FDiv(FMul(FSub(F(raw), adcLow), FSub(tempHigh, tempLow)),
                  FSub(adcHigh, adcLow)))

\* a rate limiter that is one millisecond short
CacheHitOffByOne(g, i, t) == (t - g.lastReadTime[i]) + 1 < readInterval

\* the rate limiter: the cached value is returned inside the interval
CacheHit(g, i, t) == t - g.lastReadTime[i] < readInterval

\* a range test that lets the two ADC extremes through
RawOutOfRangeStrict(raw) == raw < 0 \/ raw > 1023

\* the protection against out-of-range readings
RawOutOfRange(raw) == raw <= 0 \/ raw >= 1023

readTemperature(g, i, t, raw) ==
    IF CacheHit(g, i, t)
    THEN [temp |-> g.cachedTemperatures[i], g |-> g]
    ELSE LET g1 == [g EXCEPT !.lastReadTime[i] = t]
         IN  IF RawOutOfRange(raw)
             THEN [temp |-> F(ERROR_TEMP),
                   g    |-> [g1 EXCEPT !.cachedTemperatures[i] = F(ERROR_TEMP)]]
             ELSE LET temperature == Interpolate(g, raw)
                  IN  [temp |-> temperature,
                       g    |-> [g1 EXCEPT !.cachedTemperatures[i] = temperature]]


(***************************************************************************)
(* Segment registry                                                        *)
(***************************************************************************)
activateSegment(g, segment) ==
    IF segment < 1 \/ segment > 16 THEN g
    ELSE [g EXCEPT !.relayOut[segment - 1] = LOW,
                   !.activeSegments[segment - 1] = TRUE]

deactivateSegment(g, segment) ==
    IF segment < 1 \/ segment > 16 THEN g
    ELSE [g EXCEPT !.relayOut[segment - 1] = HIGH,
                   !.activeSegments[segment - 1] = FALSE]

activateAllSegments(g) ==
    [g EXCEPT !.relayOut = [i \in Segments |-> LOW],
              !.activeSegments = [i \in Segments |-> TRUE]]

\* a deactivation of all segments that also clears their PID state
deactivateAllSegmentsResettingPID(g) ==
    [g EXCEPT !.relayOut = [i \in Segments |-> LOW],
              !.activeSegments = [i \in Segments |-> FALSE],
              !.pidIntegral = [i \in Segments |-> F(0)],
              !.pidLastError = [i \in Segments |-> F(0)],
              !.pidLastUpdate = [i \in Segments |-> 0]]

\* the command module writes LOW to every relay pin
deactivateAllSegments(g) ==
    [g EXCEPT !.relayOut = [i \in Segments |-> LOW],
              !.activeSegments = [i \in Segments |-> FALSE]]

configurePWMRange(g, minPWM, maxPWM, minTemp, maxTemp) ==
    [g EXCEPT !.pwmMinValue = minPWM,
              !.pwmMaxValue = maxPWM,
              !.tempMin = minTemp,
              !.tempMax = maxTemp]

(***************************************************************************)
(* Section aggregator                                                      *)
(***************************************************************************)
\* the first loop of updateTemperaturePWM, from segment i to segment end
RECURSIVE AggregateLoop(_, _, _, _, _, _)
AggregateLoop(g, i, end, acc, t, analog) ==
    IF i > end THEN [g |-> g, acc |-> acc]
    ELSE LET r     == readTemperature(g, i, t, analog[i])
             valid == r.temp # F(ERROR_TEMP)
             acc1  == IF valid
                      THEN [acc EXCEPT !.sumAll = FAdd(@, r.temp),
                                       !.countAll = @ + 1]
                      ELSE acc
             acc2  == IF r.g.activeSegments[i] /\ valid
                      THEN [acc1 EXCEPT !.sumActive = FAdd(@, r.temp),
                                        !.countActive = @ + 1]
                      ELSE acc1
         IN  AggregateLoop(r.g, i + 1, end, acc2, t, analog)

\* the average without the preference for the active segments
ChooseAverageOfAllValid(acc) ==
    IF acc.countAll > 0 THEN FDiv(acc.sumAll, F(acc.countAll))
    ELSE F(DEFAULT_TEMP)

\* the temperature the aggregator reports for the counted readings
ChooseAverage(acc) ==
    IF acc.countActive > 0 THEN FDiv(acc.sumActive, F(acc.countActive))
    ELSE IF acc.countAll > 0 THEN FDiv(acc.sumAll, F(acc.countAll))
    ELSE F(DEFAULT_TEMP)

\* map(avgTemp, tempMin, tempMax, pwmMaxValue, pwmMinValue), then constrain
TempToPWM(g, avgTemp) ==
    LET mapped == LongToInt(Map(FTrunc(avgTemp), FTrunc(g.tempMin),
                                FTrunc(g.tempMax), g.pwmMaxValue, g.pwmMinValue))
    IN  Constrain(mapped, g.pwmMinValue, g.pwmMaxValue)

updateTemperaturePWM(g, secIndex, start, end, t, analog) ==
    LET zero    == [sumActive |-> F(0), countActive |-> 0,
                    sumAll |-> F(0), countAll |-> 0]
        r       == AggregateLoop(g, start, end, zero, t, analog)
        avgTemp == ChooseAverage(r.acc)
    IN  [r.g EXCEPT !.pwmOut[secIndex] = TempToPWM(r.g, avgTemp),
                    !.avgTempSent[secIndex] = avgTemp]

(***************************************************************************)
(* Hysteresis control                                                      *)
(***************************************************************************)
\* the first loop of controlHeating: the readings of the active segments
RECURSIVE HeatingSumLoop(_, _, _, _, _, _)
HeatingSumLoop(g, i, end, acc, t, analog) ==
    IF i > end THEN [g |-> g, acc |-> acc]
    ELSE IF g.activeSegments[i]
         THEN LET r == readTemperature(g, i, t, analog[i])
              IN  HeatingSumLoop(r.g, i + 1, end,
                                 [sum |-> FAdd(acc.sum, r.temp),
                                  count |-> acc.count + 1], t, analog)
         ELSE HeatingSumLoop(g, i + 1, end, acc, t, analog)

controlHeating(g, secIndex, start, end, t, analog) ==
    LET r          == HeatingSumLoop(g, start, end, [sum |-> F(0), count |-> 0],
                                     t, analog)
        avgTemp    == IF r.acc.count > 0 THEN FDiv(r.acc.sum, F(r.acc.count))
                      ELSE F(0)
        target     == r.g.targetTemp[secIndex]
        heatingOn  == FLt(avgTemp, FSub(target, F(TEMP_HYSTERESIS)))
        heatingOff == FGt(avgTemp, FAdd(target, F(TEMP_HYSTERESIS)))
    IN  [r.g EXCEPT !.relayOut =
            [i \in Segments |->
                IF i >= start /\ i <= end /\ r.g.activeSegments[i]
                THEN (IF heatingOn THEN LOW
                      ELSE IF heatingOff THEN HIGH
                      ELSE r.g.relayOut[i])
                ELSE r.g.relayOut[i]]]

\* updateAllSections, from section i on
RECURSIVE UpdateSectionsFrom(_, _, _, _)
UpdateSectionsFrom(g, i, t, analog) ==
    IF i >= 4 THEN g
    ELSE LET g1 == updateTemperaturePWM(g, i, i * 4, (i * 4) + 3, t, analog)
             g2 == controlHeating(g1, i, i * 4, (i * 4) + 3, t, analog)
         IN  UpdateSectionsFrom(g2, i + 1, t, analog)

\* a pass over the sections that puts the default output range back midway
updateAllSectionsRestoringRange(g, t, analog) ==
    UpdateSectionsFrom([UpdateSectionsFrom(g, NUM_SECTIONS - 1, t, analog)
                           EXCEPT !.pwmMinValue = 0, !.pwmMaxValue = 255],
                       NUM_SECTIONS, t, analog)

updateAllSections(g, t, analog) == UpdateSectionsFrom(g, 0, t, analog)


(***************************************************************************)
(* PID engine and the relay control pass                                   *)
(***************************************************************************)
\* the new PID state of segment segmentIndex and the constrained output
calculatePID(g, segmentIndex, currentTemp, target, t) ==
    LET deltaTime    == FDiv(F(t - g.pidLastUpdate[segmentIndex]), F(1000))
        error        == FSub(target, currentTemp)
        proportional == FMul(pidKp, error)
        newIntegral  == FAdd(g.pidIntegral[segmentIndex], FMul(error, deltaTime))
        integral     == FMul(pidKi, newIntegral)
        derivative   == FDiv(FMul(pidKd, FSub(error, g.pidLastError[segmentIndex])),
                             deltaTime)
        output       == FAdd(FAdd(proportional, integral), derivative)
    IN  [out |-> FConstrain(output, F(0), F(1)),
         g   |-> [g EXCEPT !.pidLastUpdate[segmentIndex] = t,
                           !.pidIntegral[segmentIndex] = newIntegral,
                           !.pidLastError[segmentIndex] = error]]

\* the loop of controlHeatingWithPID, from segment i to segment end
RECURSIVE PIDLoop(_, _, _, _, _, _)
PIDLoop(g, secIndex, i, end, t, analog) ==
    IF i > end THEN g
    ELSE IF g.activeSegments[i]
         THEN LET r   == readTemperature(g, i, t, analog[i])
                  pid == calculatePID(r.g, i, r.temp, r.g.targetTemp[secIndex], t)
                  lvl == IF FGt(pid.out, PID_OUTPUT_THRESHOLD) THEN LOW ELSE HIGH
              IN  PIDLoop([pid.g EXCEPT !.relayOut[i] = lvl],
                          secIndex, i + 1, end, t, analog)
         ELSE PIDLoop(g, secIndex, i + 1, end, t, analog)

\* a PID pass that switches relays on and leaves the others as they are
controlHeatingWithPIDOnlySwitchingOn(g, secIndex, start, end, t, analog) ==
    LET r == PIDLoop(g, secIndex, start, end, t, analog)
    IN  [r EXCEPT !.relayOut =
            [i \in Segments |-> IF r.relayOut[i] = LOW THEN LOW
                                ELSE g.relayOut[i]]]

controlHeatingWithPID(g, secIndex, start, end, t, analog) ==
    PIDLoop(g, secIndex, start, end, t, analog)

\* the for loop of loop() over the sections, from section i on
RECURSIVE PIDSectionsFrom(_, _, _, _)
PIDSectionsFrom(g, i, t, analog) ==
    IF i >= NUM_SECTIONS THEN g
    ELSE PIDSectionsFrom(
            controlHeatingWithPID(g, i, i * (NUM_SEGMENTS \div NUM_SECTIONS),
                (i * (NUM_SEGMENTS \div NUM_SECTIONS))
                    + (NUM_SEGMENTS \div NUM_SECTIONS) - 1, t, analog),
            i + 1, t, analog)

(***************************************************************************)
(* Thermal safety monitor                                                  *)
(***************************************************************************)
\* the test with the ceiling itself counted as a violation
SafetyViolationAtCeiling(temp) == ~IsNaN(temp) /\ ~FLt(temp, F(SAFETY_TEMP_MAX))

\* the test of the safety scan on one reading
SafetyViolation(temp) == FGt(temp, F(SAFETY_TEMP_MAX))

\* the scan without the break: it reads the segments after the violation too
RECURSIVE SafetyScanWithoutBreak(_, _, _, _)
SafetyScanWithoutBreak(g, i, t, analog) ==
    IF i >= 16 THEN g
    ELSE LET r == readTemperature(g, i, t, analog[i])
         IN  IF SafetyViolation(r.temp) /\ ~r.g.thermalSafetyTriggered
             THEN SafetyScanWithoutBreak(
                      deactivateAllSegments(
                          [r.g EXCEPT !.thermalSafetyTriggered = TRUE,
                                      !.alert = i + 1]), i + 1, t, analog)
             ELSE SafetyScanWithoutBreak(r.g, i + 1, t, analog)

\* the scan of checkThermalSafety, from segment i on; it stops at the first
\* violation
RECURSIVE SafetyScan(_, _, _, _)
SafetyScan(g, i, t, analog) ==
    IF i >= 16 THEN g
    ELSE LET r == readTemperature(g, i, t, analog[i])
         IN  IF SafetyViolation(r.temp)
             THEN deactivateAllSegments(
                      [r.g EXCEPT !.thermalSafetyTriggered = TRUE,
                                  !.alert = i + 1])
             ELSE SafetyScan(r.g, i + 1, t, analog)

checkThermalSafety(g, t, analog) == SafetyScan(g, 0, t, analog)

\* a reset that also switches every segment back on
resetThermalSafetyReactivating(g) ==
    activateAllSegments([g EXCEPT !.thermalSafetyTriggered = FALSE])

resetThermalSafety(g) == [g EXCEPT !.thermalSafetyTriggered = FALSE]

(***************************************************************************)
(* Status and diagnostics: both read every segment's temperature           *)
(***************************************************************************)
RECURSIVE ReadAllFrom(_, _, _, _)
ReadAllFrom(g, i, t, analog) ==
    IF i >= 16 THEN g
    ELSE ReadAllFrom(readTemperature(g, i, t, analog[i]).g, i + 1, t, analog)

printSystemStatus(g, t, analog) == ReadAllFrom(g, 0, t, analog)

debugMonitor(g, t, analog) == ReadAllFrom(g, 0, t, analog)


(***************************************************************************)
(* Command text                                                            *)
(***************************************************************************)
W_ON == <<"O", "N">>

W_OFF == <<"O", "F", "F">>

W_ALL == <<"A", "L", "L">>

W_DEBUG == <<"D", "E", "B", "U", "G">>

W_STATUS == <<"S", "T", "A", "T", "U", "S">>

W_HELP == <<"H", "E", "L", "P">>

W_RESET_SAFETY ==
    <<"R", "E", "S", "E", "T", "_", "S", "A", "F", "E", "T", "Y">>

W_SET_PWM_RANGE ==
    <<"S", "E", "T", "_", "P", "W", "M", "_", "R", "A", "N", "G", "E">>

SP == <<" ">>

T_ON_ALL == W_ON \o SP \o W_ALL

T_OFF_ALL == W_OFF \o SP \o W_ALL

T_DEBUG_ON == W_DEBUG \o SP \o W_ON

T_DEBUG_OFF == W_DEBUG \o SP \o W_OFF

(***************************************************************************)
(* Command handlers.  command is the line read from the channel; the reply *)
(* field keeps the channel and the kind of the answer printed.             *)
(***************************************************************************)
Reply(g, chan, kind) == [g EXCEPT !.reply = [chan |-> chan, kind |-> kind]]

\* the SET_PWM_RANGE branch of processSerialCommands
SetPWMRangeCommand(g, command) ==
    LET minPWM  == ToInt(Substring(command, 14, IndexOfSpace(command, 14)))
        maxPWM  == ToInt(Substring(command, IndexOfSpace(command, 14) + 1,
                                   LastIndexOfSpace(command)))
        minTemp == ToFloat(Substring(command, LastIndexOfSpace(command) + 1,
                       LastIndexOfSpaceFrom(command, LastIndexOfSpace(command) - 1)))
        maxTemp == ToFloat(SubstringFrom(command, LastIndexOfSpace(command) + 1))
    IN  configurePWMRange(g, minPWM, maxPWM, minTemp, maxTemp)

\* the ON ALL branch of processSerialCommands
SerialOnAll(g) ==
    IF ~g.thermalSafetyTriggered
    THEN Reply(activateAllSegments(g), "local", "activated")
    ELSE Reply(g, "local", "safety")

\* the ON <n> branch of processSerialCommands
SerialOnSegment(g, command) ==
    LET segmentNumber == ToInt(SubstringFrom(command, 3))
    IN  IF segmentNumber >= 1 /\ segmentNumber <= 16
        THEN (IF ~g.thermalSafetyTriggered
              THEN Reply(activateSegment(g, segmentNumber), "local", "activated")
              ELSE Reply(g, "local", "safety"))
        ELSE Reply(g, "local", "invalid")

\* processSerialCommands, once Serial.available() holds and the line is read
processSerialCommands(g, line, t, analog) ==
    LET command == Trim(line)
    IN  IF command = T_DEBUG_ON
        THEN Reply([g EXCEPT !.debugMode = TRUE], "local", "debug")
        ELSE IF command = T_DEBUG_OFF
        THEN Reply([g EXCEPT !.debugMode = FALSE], "local", "debug")
        ELSE IF command = W_STATUS
        THEN Reply(printSystemStatus(g, t, analog), "local", "status")
        ELSE IF StartsWith(command, W_SET_PWM_RANGE)
        THEN Reply(SetPWMRangeCommand(g, command), "local", "configured")
        ELSE IF command = T_ON_ALL
        THEN SerialOnAll(g)
        ELSE IF command = T_OFF_ALL
        THEN Reply(deactivateAllSegments(g), "local", "deactivated")
        ELSE IF StartsWith(command, W_ON)
        THEN SerialOnSegment(g, command)
        ELSE IF StartsWith(command, W_OFF)
        THEN LET segmentNumber == ToInt(SubstringFrom(command, 4))
             IN  IF segmentNumber >= 1 /\ segmentNumber <= 16
                 THEN Reply(deactivateSegment(g, segmentNumber),
                            "local", "deactivated")
                 ELSE Reply(g, "local", "invalid")
        ELSE IF command = W_HELP
        THEN Reply(g, "local", "help")
        ELSE IF command = W_RESET_SAFETY
        THEN Reply(resetThermalSafety(g), "local", "reset")
        ELSE Reply(g, "local", "unrecognized")

\* the ON ALL branch with a latch that the command clears
ExternalOnAllResetting(g) ==
    Reply(activateAllSegments([g EXCEPT !.thermalSafetyTriggered = FALSE]),
          "uplink", "activated")

\* the ON ALL branch of processExternalCommand
ExternalOnAll(g) ==
    IF ~g.thermalSafetyTriggered
    THEN Reply(activateAllSegments(g), "uplink", "activated")
    ELSE Reply(g, "uplink", "safety")

\* the ON <n> branch without the test of the latch
ExternalOnSegmentUnguarded(g, command) ==
    LET segmentNumber == ToInt(SubstringFrom(command, 3))
    IN  IF segmentNumber >= 1 /\ segmentNumber <= 16
        THEN Reply(activateSegment(g, segmentNumber), "uplink", "activated")
        ELSE Reply(g, "uplink", "invalid")

\* the ON <n> branch of processExternalCommand
ExternalOnSegment(g, command) ==
    LET segmentNumber == ToInt(SubstringFrom(command, 3))
    IN  IF segmentNumber >= 1 /\ segmentNumber <= 16
        THEN (IF ~g.thermalSafetyTriggered
              THEN Reply(activateSegment(g, segmentNumber), "uplink", "activated")
              ELSE Reply(g, "uplink", "safety"))
        ELSE Reply(g, "uplink", "invalid")

processExternalCommand(g, line, t, analog) ==
    LET command == Trim(line)
    IN  IF command = T_ON_ALL
        THEN ExternalOnAll(g)
        ELSE IF command = T_OFF_ALL
        THEN Reply(deactivateAllSegments(g), "uplink", "deactivated")
        ELSE IF StartsWith(command, W_ON)
        THEN ExternalOnSegment(g, command)
        ELSE IF StartsWith(command, W_OFF)
        THEN LET segmentNumber == ToInt(SubstringFrom(command, 4))
             IN  IF segmentNumber >= 1 /\ segmentNumber <= 16
                 THEN Reply(deactivateSegment(g, segmentNumber),
                            "uplink", "deactivated")
                 ELSE Reply(g, "uplink", "invalid")
        ELSE IF command = W_RESET_SAFETY
        THEN Reply(resetThermalSafety(g), "uplink", "reset")
        ELSE IF command = T_DEBUG_ON
        THEN Reply([g EXCEPT !.debugMode = TRUE], "uplink", "debug")
        ELSE IF command = T_DEBUG_OFF
        THEN Reply([g EXCEPT !.debugMode = FALSE], "uplink", "debug")
        ELSE IF command = W_HELP
        THEN Reply(g, "uplink", "help")
        ELSE IF command = W_STATUS
        THEN Reply(printSystemStatus(g, t, analog), "uplink", "status")
        ELSE Reply(g, "uplink", "unrecognized")


(***************************************************************************)
(* Bounds of the model and the inputs of the environment                   *)
(***************************************************************************)
\* calls of delay(DEBUG_INTERVAL) in one run
MaxDelays == 2

\* lines that arrive on the two channels in one run
MaxCommands == 1

\* lines a receive buffer holds
MaxQueue == 1

\* changes of a sensor's analog input in one run
MaxSensorChanges == 1

\* times the clock advances by TimeStep between two phases in one run
MaxElapses == 1

\* a phase that takes time takes one read interval
TimeStep == readInterval

\* the analog input of every sensor at start: the table entry of 30 degrees
AmbientRaw == tempTable[8][1]

\* the sensors whose analog input changes together: that of segment 1, that
\* of segment 5, those of the first section
SensorGroups == {{0}, {4}, {0, 1, 2, 3}}

\* 0: out of range, 450: 135 degrees, 500: 120 degrees, 800: 30 degrees
RawValues == {0, 450, 500, 800}

\* what the two words in front of the table may be: zeroes, or words equal
\* to the first entry
FlashWords == {<<0, 0>>, <<1, 300>>}

\* decimal text of a natural number
RECURSIVE Dec(_)
Dec(n) == IF n < 10 THEN <<Digits[n + 1]>>
          ELSE Dec(n \div 10) \o <<Digits[(n % 10) + 1]>>

T_ON(n) == W_ON \o SP \o Dec(n)

T_OFF(n) == W_OFF \o SP \o Dec(n)

T_SET_PWM_RANGE(a, b, c, d) ==
    W_SET_PWM_RANGE \o SP \o Dec(a) \o SP \o Dec(b) \o SP \o Dec(c) \o SP \o Dec(d)

T_UNKNOWN == <<"F", "O", "O">>

\* the segment numbers the ON <n> and OFF <n> lines carry
CommandNumbers == {0, 1, 5, 17, 65537}

\* the lines the environment sends
Lines ==
    {T_ON_ALL, T_OFF_ALL, W_RESET_SAFETY, W_STATUS, W_HELP, T_DEBUG_ON,
     T_DEBUG_OFF, T_UNKNOWN, T_SET_PWM_RANGE(0, 200, 0, 100),
     T_SET_PWM_RANGE(200, 0, 0, 100), T_SET_PWM_RANGE(0, 255, 0, 1)}
    \cup {T_ON(n) : n \in CommandNumbers}
    \cup {T_OFF(n) : n \in CommandNumbers}

(***************************************************************************)
(* State                                                                   *)
(***************************************************************************)
VARIABLES
    thermalSafetyTriggered, debugMode, activeSegments, relayOut, targetTemp,
    cachedTemperatures, lastReadTime, pidIntegral, pidLastError, pidLastUpdate,
    pwmMinValue, pwmMaxValue, tempMin, tempMax,
    pwmOut,        \* the value last written to each outbound analog channel
    avgTempSent,   \* the section temperature last printed as "Avg Temp Sent"
    alert,         \* the segment number of the last ALERT line, 0 for none
    flashBeforeTable, \* the two 16-bit words in front of tempTable in flash
    reply,         \* the channel and kind of the last answer to a command
    now,           \* millis()
    analogIn,      \* the analog input of every sensor
    serialIn,      \* lines waiting on the local control link (Serial)
    serial1In,     \* lines waiting on the uplink (Serial1)
    pc,            \* the position of loop()
    nCommands, nSensorChanges, nElapses, nDelays

progVars ==
    <<thermalSafetyTriggered, debugMode, activeSegments, relayOut, targetTemp,
      cachedTemperatures, lastReadTime, pidIntegral, pidLastError, pidLastUpdate,
      pwmMinValue, pwmMaxValue, tempMin, tempMax, pwmOut, avgTempSent, alert,
      flashBeforeTable, reply>>

envVars == <<analogIn, serialIn, serial1In>>

countVars == <<nCommands, nSensorChanges, nElapses, nDelays>>

vars == <<progVars, envVars, countVars, now, pc>>

\* the program's globals as one record
G ==
    [thermalSafetyTriggered |-> thermalSafetyTriggered,
     debugMode              |-> debugMode,
     activeSegments         |-> activeSegments,
     relayOut               |-> relayOut,
     targetTemp             |-> targetTemp,
     cachedTemperatures     |-> cachedTemperatures,
     lastReadTime           |-> lastReadTime,
     pidIntegral            |-> pidIntegral,
     pidLastError           |-> pidLastError,
     pidLastUpdate          |-> pidLastUpdate,
     pwmMinValue            |-> pwmMinValue,
     pwmMaxValue            |-> pwmMaxValue,
     tempMin                |-> tempMin,
     tempMax                |-> tempMax,
     pwmOut                 |-> pwmOut,
     avgTempSent            |-> avgTempSent,
     alert                  |-> alert,
     flashBeforeTable       |-> flashBeforeTable,
     reply                  |-> reply]

\* the globals after a step are those of record g
Commit(g) ==
    /\ thermalSafetyTriggered' = g.thermalSafetyTriggered
    /\ debugMode' = g.debugMode
    /\ activeSegments' = g.activeSegments
    /\ relayOut' = g.relayOut
    /\ targetTemp' = g.targetTemp
    /\ cachedTemperatures' = g.cachedTemperatures
    /\ lastReadTime' = g.lastReadTime
    /\ pidIntegral' = g.pidIntegral
    /\ pidLastError' = g.pidLastError
    /\ pidLastUpdate' = g.pidLastUpdate
    /\ pwmMinValue' = g.pwmMinValue
    /\ pwmMaxValue' = g.pwmMaxValue
    /\ tempMin' = g.tempMin
    /\ tempMax' = g.tempMax
    /\ pwmOut' = g.pwmOut
    /\ avgTempSent' = g.avgTempSent
    /\ alert' = g.alert
    /\ flashBeforeTable' = g.flashBeforeTable
    /\ reply' = g.reply

\* the relay pins after setupPins
setupPins == [i \in Segments |-> HIGH]

\* the state after the static initialisers and setup()
Init ==
    /\ thermalSafetyTriggered = FALSE
    /\ debugMode = FALSE
    /\ activeSegments = [i \in Segments |-> FALSE]
    /\ relayOut = setupPins
    /\ targetTemp = [s \in Sections |-> F(0)]
    /\ cachedTemperatures = [i \in Segments |-> F(0)]
    /\ lastReadTime = [i \in Segments |-> 0]
    /\ pidIntegral = [i \in Segments |-> F(0)]
    /\ pidLastError = [i \in Segments |-> F(0)]
    /\ pidLastUpdate = [i \in Segments |-> 0]
    /\ pwmMinValue = 0
    /\ pwmMaxValue = 255
    /\ tempMin = F(0)
    /\ tempMax = F(280)
    /\ pwmOut = [s \in Sections |-> 0]
    /\ avgTempSent = [s \in Sections |-> NaN]
    /\ alert = 0
    /\ flashBeforeTable \in FlashWords
    /\ reply = [chan |-> "none", kind |-> "none"]
    /\ now = 0
    /\ analogIn = [i \in Segments |-> AmbientRaw]
    /\ serialIn = <<>>
    /\ serial1In = <<>>
    /\ pc = "top"
    /\ nCommands = 0
    /\ nSensorChanges = 0
    /\ nElapses = 0
    /\ nDelays = 0

(***************************************************************************)
(* The environment                                                         *)
(***************************************************************************)
\* a line arrives on the local control link; the program looks at this
\* buffer only at the top of loop(), so the line arrives just before
SerialArrive(line) ==
    /\ pc = "top"
    /\ nCommands < MaxCommands
    /\ Len(serialIn) < MaxQueue
    /\ serialIn' = Append(serialIn, line)
    /\ nCommands' = nCommands + 1
    /\ UNCHANGED <<progVars, analogIn, serial1In, nSensorChanges, nElapses,
                   nDelays, now, pc>>

\* a line arrives on the uplink; the program looks at this buffer only at
\* the end of loop(), so the line arrives just before
Serial1Arrive(line) ==
    /\ pc = "uplink"
    /\ nCommands < MaxCommands
    /\ Len(serial1In) < MaxQueue
    /\ serial1In' = Append(serial1In, line)
    /\ nCommands' = nCommands + 1
    /\ UNCHANGED <<progVars, analogIn, serialIn, nSensorChanges, nElapses,
                   nDelays, now, pc>>

\* the analog input of a group of sensors changes
SensorChange(group, raw) ==
    /\ nSensorChanges < MaxSensorChanges
    /\ \E i \in group : analogIn[i] # raw
    /\ analogIn' = [i \in Segments |-> IF i \in group THEN raw ELSE analogIn[i]]
    /\ nSensorChanges' = nSensorChanges + 1
    /\ UNCHANGED <<progVars, serialIn, serial1In, nCommands, nElapses, nDelays,
                   now, pc>>

\* the running phase takes TimeStep milliseconds
Elapse ==
    /\ nElapses < MaxElapses
    /\ now' = now + TimeStep
    /\ nElapses' = nElapses + 1
    /\ UNCHANGED <<progVars, envVars, nCommands, nSensorChanges, nDelays, pc>>

(***************************************************************************)
(* loop(), phase by phase                                                  *)
(***************************************************************************)
\* latch clear: command intake on the local control link
LoopCommands ==
    /\ pc = "top"
    /\ ~thermalSafetyTriggered
    /\ IF serialIn # <<>>
       THEN /\ Commit(processSerialCommands(G, Head(serialIn), now, analogIn))
            /\ serialIn' = Tail(serialIn)
       ELSE /\ UNCHANGED progVars
            /\ serialIn' = serialIn
    /\ pc' = "sections"
    /\ UNCHANGED <<analogIn, serial1In, countVars, now>>

\* latch set, and the iteration runs the control passes all the same
LoopTrippedIntoControl ==
    /\ pc = "top"
    /\ thermalSafetyTriggered
    /\ pc' = "sections"
    /\ UNCHANGED <<progVars, envVars, countVars, now>>

\* latch set: the else branch, which prints the message
LoopTripped ==
    /\ pc = "top"
    /\ thermalSafetyTriggered
    /\ pc' = "tripped"
    /\ UNCHANGED <<progVars, envVars, countVars, now>>

\* the delay of the else branch
LoopTrippedDelay ==
    /\ pc = "tripped"
    /\ nDelays < MaxDelays
    /\ now' = now + DEBUG_INTERVAL
    /\ nDelays' = nDelays + 1
    /\ pc' = "delay"
    /\ UNCHANGED <<progVars, envVars, nCommands, nSensorChanges, nElapses>>

\* the section update followed at once by the PID pass   (mutant for C25)
LoopSectionsIntoPID ==
    /\ pc = "sections"
    /\ Commit(updateAllSections(G, now, analogIn))
    /\ pc' = "pid"
    /\ UNCHANGED <<envVars, countVars, now>>

LoopSections ==
    /\ pc = "sections"
    /\ Commit(updateAllSections(G, now, analogIn))
    /\ pc' = "status"
    /\ UNCHANGED <<envVars, countVars, now>>

\* printActiveSegmentsPeriodically: the list of active segments is printed
LoopStatus ==
    /\ pc = "status"
    /\ pc' = "pid"
    /\ UNCHANGED <<progVars, envVars, countVars, now>>

LoopPID ==
    /\ pc = "pid"
    /\ Commit(PIDSectionsFrom(G, 0, now, analogIn))
    /\ pc' = "safety"
    /\ UNCHANGED <<envVars, countVars, now>>

LoopSafety ==
    /\ pc = "safety"
    /\ Commit(checkThermalSafety(G, now, analogIn))
    /\ pc' = "debug"
    /\ UNCHANGED <<envVars, countVars, now>>

LoopDebug ==
    /\ pc = "debug"
    /\ IF debugMode
       THEN Commit(debugMonitor(G, now, analogIn))
       ELSE UNCHANGED progVars
    /\ pc' = "delay"
    /\ UNCHANGED <<envVars, countVars, now>>

\* the general delay at the end of both branches
LoopDelay ==
    /\ pc = "delay"
    /\ nDelays < MaxDelays
    /\ now' = now + DEBUG_INTERVAL
    /\ nDelays' = nDelays + 1
    /\ pc' = "uplink"
    /\ UNCHANGED <<progVars, envVars, nCommands, nSensorChanges, nElapses>>

\* command intake on the uplink
LoopUplink ==
    /\ pc = "uplink"
    /\ IF serial1In # <<>>
       THEN /\ Commit(processExternalCommand(G, Head(serial1In), now, analogIn))
            /\ serial1In' = Tail(serial1In)
       ELSE /\ UNCHANGED progVars
            /\ serial1In' = serial1In
    /\ pc' = "top"
    /\ UNCHANGED <<analogIn, serialIn, countVars, now>>

Next ==
    \/ \E line \in Lines : SerialArrive(line)
    \/ \E line \in Lines : Serial1Arrive(line)
    \/ \E group \in SensorGroups, raw \in RawValues : SensorChange(group, raw)
    \/ Elapse
    \/ LoopCommands
    \/ LoopTripped
    \/ LoopTrippedDelay
    \/ LoopSections
    \/ LoopStatus
    \/ LoopPID
    \/ LoopSafety
    \/ LoopDebug
    \/ LoopDelay
    \/ LoopUplink

Spec == Init /\ [][Next]_vars


(***************************************************************************)
(* Properties                                                              *)
(***************************************************************************)
AllInactive == \A i \in Segments : ~activeSegments[i]

AllRelaysOff == \A i \in Segments : relayOut[i] = HIGH

\* a reading above the ceiling is in the cache; every reading the scan takes
\* is the cached value of its sensor when the scan ends
ReadingAboveCeiling ==
    \E i \in Segments : FGt(cachedTemperatures[i], F(SAFETY_TEMP_MAX))

ReadingAtOrAboveCeiling ==
    \E i \in Segments : /\ ~IsNaN(cachedTemperatures[i])
                        /\ ~FLt(cachedTemperatures[i], F(SAFETY_TEMP_MAX))

\* the safety scan of this tick has just finished
ScanDone == pc = "debug"

\* C1: when the safety scan ends and a reading exceeded the ceiling of 120,
\* the latch is set, every segment is inactive and every relay output is at
\* the off level HIGH.
C1_ScanTripShutsEverythingOff ==
    (ScanDone /\ ReadingAboveCeiling)
        => (thermalSafetyTriggered /\ AllInactive /\ AllRelaysOff)

\* C2 as stated: a reading greater than or equal to 120 sets the latch and
\* deactivates all 16 segments in the same tick.
C2_AtOrAboveCeilingTrips ==
    (ScanDone /\ ReadingAtOrAboveCeiling)
        => (thermalSafetyTriggered /\ AllInactive)

\* C2: when the safety scan ends, the latch is set exactly when a reading is
\* strictly greater than 120, and then all 16 segments are inactive; a
\* reading of exactly 120 does not set the latch.
C2_AboveCeilingTrips ==
    ScanDone => /\ thermalSafetyTriggered <=> ReadingAboveCeiling
                /\ thermalSafetyTriggered => AllInactive

\* the scan ended on a reading of exactly 120 and the latch is clear
C2_Witness ==
    /\ ScanDone
    /\ \E i \in Segments : cachedTemperatures[i] = F(SAFETY_TEMP_MAX)
    /\ ~ReadingAboveCeiling
    /\ ~thermalSafetyTriggered

\* the scan ended on a reading above 120 with the latch set
C2_WitnessTrip == ScanDone /\ ReadingAboveCeiling /\ thermalSafetyTriggered

\* C3: while the latch is set, every segment is inactive and every relay is
\* off.
C3_LatchedMeansAllOff ==
    thermalSafetyTriggered => (AllInactive /\ AllRelaysOff)

\* the part of C3 about the active flags
LatchedMeansAllInactive == thermalSafetyTriggered => AllInactive


\* loop() takes this line from the local control link and handles it
SerialHandles(line) ==
    /\ pc = "top"
    /\ ~thermalSafetyTriggered
    /\ serialIn # <<>>
    /\ Head(serialIn) = line
    /\ pc' = "sections"

\* loop() takes this line from the uplink and handles it
UplinkHandles(line) ==
    /\ pc = "uplink"
    /\ serial1In # <<>>
    /\ Head(serial1In) = line
    /\ pc' = "top"

\* C4: the step that handles RESET_SAFETY, on either channel, clears the
\* latch and leaves every active flag, every relay output and every other
\* global of the controller as it was.
C4_ResetClearsOnlyTheLatch ==
    [][(SerialHandles(W_RESET_SAFETY) \/ UplinkHandles(W_RESET_SAFETY))
          => /\ ~thermalSafetyTriggered'
             /\ UNCHANGED <<debugMode, activeSegments, relayOut, targetTemp,
                            cachedTemperatures, lastReadTime, pidIntegral,
                            pidLastError, pidLastUpdate, pwmMinValue,
                            pwmMaxValue, tempMin, tempMax, pwmOut,
                            avgTempSent, alert>>]_vars

\* a RESET_SAFETY of the uplink has cleared a latch that a scan had set
C4_Witness ==
    /\ reply = [chan |-> "uplink", kind |-> "reset"]
    /\ alert # 0
    /\ ~thermalSafetyTriggered
    /\ AllInactive

\* the activation commands: ON ALL and ON n for n in 1..16
OnLines == {T_ON_ALL} \cup {T_ON(n) : n \in 1..NUM_SEGMENTS}

\* g has the active flags, the relay outputs and the latch of this state
SameActuation(g) ==
    /\ g.activeSegments = activeSegments
    /\ g.relayOut = relayOut
    /\ g.thermalSafetyTriggered = thermalSafetyTriggered

\* C5: in every state with the latch set, the handler of either channel
\* leaves the active flags, the relay outputs and the latch unchanged on
\* ON ALL and on ON n for every n in 1..16.
C5_LatchedRejectsActivation ==
    thermalSafetyTriggered =>
        \A line \in OnLines :
            /\ SameActuation(processSerialCommands(G, line, now, analogIn))
            /\ SameActuation(processExternalCommand(G, line, now, analogIn))

\* an activation command was handled with the latch set and was refused
C5_Witness ==
    /\ thermalSafetyTriggered
    /\ reply = [chan |-> "uplink", kind |-> "safety"]
    /\ pc = "top"

\* the numbers outside 1..16 among those the commands carry
OutOfRange == {n \in CommandNumbers : n < 1 \/ n > NUM_SEGMENTS}

\* g is this state but for the answer printed
NoStateChange(g) == [g EXCEPT !.reply = reply] = G

\* both handlers leave the state as it is on ON n and OFF n
RejectedOnBothChannels(n) ==
    \A line \in {T_ON(n), T_OFF(n)} :
        /\ NoStateChange(processSerialCommands(G, line, now, analogIn))
        /\ NoStateChange(processExternalCommand(G, line, now, analogIn))

\* C6: in every state, ON n and OFF n with n outside 1..16 change nothing of
\* the controller's state, on either channel.
C6_OutOfRangeRejected == \A n \in OutOfRange : RejectedOnBothChannels(n)

\* the part of C6 about the numbers next to the range
BoundaryNumbersRejected == \A n \in {0, 17} : RejectedOnBothChannels(n)

\* C7: a loop iteration that starts with the latch set and a line waiting on
\* the local control link takes that line; the local link is read nowhere
\* but at the start of an iteration.
C7_LatchedLoopReadsLocalLink ==
    [][(pc = "top" /\ thermalSafetyTriggered /\ serialIn # <<>> /\ pc' # "top")
          => serialIn' = Tail(serialIn)]_vars

\* C8: an iteration that starts with the latch set goes to the else branch
\* and, up to the uplink intake, writes no relay output and changes no
\* segment's PID state; the control passes run only with the latch clear.
C8_LatchedTickSkipsControl ==
    [][/\ (thermalSafetyTriggered /\ pc = "top") => pc' \in {"top", "tripped"}
       /\ (thermalSafetyTriggered /\ pc \in {"top", "tripped", "delay"})
             => UNCHANGED <<relayOut, pidIntegral, pidLastError, pidLastUpdate>>
       /\ pc' \in {"sections", "status", "pid", "safety"}
             => ~thermalSafetyTriggered']_vars

\* an iteration that started with the latch set is in its else branch
C8_Witness == pc = "tripped" /\ thermalSafetyTriggered /\ alert # 0

\* what the channels are compared on: active flags, relays, latch, debug
\* flag and PWM range
ControllerState(g) ==
    <<g.activeSegments, g.relayOut, g.thermalSafetyTriggered, g.debugMode,
      g.pwmMinValue, g.pwmMaxValue, g.tempMin, g.tempMax>>

SameOnBothChannels(line) ==
    ControllerState(processSerialCommands(G, line, now, analogIn))
        = ControllerState(processExternalCommand(G, line, now, analogIn))

\* C9: in every state and for every line, the handler of the local control
\* link and the handler of the uplink give the same active flags, relay
\* outputs, latch, debug flag and PWM range.
C9_ChannelsEquivalent == \A line \in Lines : SameOnBothChannels(line)

\* the part of C9 about the lines other than SET_PWM_RANGE
ChannelsEquivalentButPWMRange ==
    \A line \in Lines :
        StartsWith(line, W_SET_PWM_RANGE) \/ SameOnBothChannels(line)


(***************************************************************************)
(* The aggregator on every combination of active flags and readings of one *)
(* section: the controller one read interval after start, the segments of  *)
(* the section switched on by commands, its sensors at any of the inputs.  *)
(***************************************************************************)
\* 0 and 1023: out of range, 500: 120 degrees, 800: 30 degrees
AggRawValues == {0, 500, 800, 1023}

\* the segments updateAllSections gives to section s
SectionSegments(s) == (s * 4)..((s * 4) + 3)

AggInit ==
    /\ thermalSafetyTriggered = FALSE
    /\ debugMode = FALSE
    /\ \E s \in Sections :
         \E flags \in [SectionSegments(s) -> BOOLEAN],
            raws \in [SectionSegments(s) -> AggRawValues] :
            /\ activeSegments =
                 [i \in Segments |-> i \in SectionSegments(s) /\ flags[i]]
            /\ relayOut =
                 [i \in Segments |->
                     IF i \in SectionSegments(s) /\ flags[i] THEN LOW ELSE HIGH]
            /\ analogIn =
                 [i \in Segments |->
                     IF i \in SectionSegments(s) THEN raws[i] ELSE AmbientRaw]
    /\ targetTemp = [s \in Sections |-> F(0)]
    /\ cachedTemperatures = [i \in Segments |-> F(0)]
    /\ lastReadTime = [i \in Segments |-> 0]
    /\ pidIntegral = [i \in Segments |-> F(0)]
    /\ pidLastError = [i \in Segments |-> F(0)]
    /\ pidLastUpdate = [i \in Segments |-> 0]
    /\ pwmMinValue = 0
    /\ pwmMaxValue = 255
    /\ tempMin = F(0)
    /\ tempMax = F(280)
    /\ pwmOut = [s \in Sections |-> 0]
    /\ avgTempSent = [s \in Sections |-> NaN]
    /\ alert = 0
    /\ flashBeforeTable \in FlashWords
    /\ reply = [chan |-> "none", kind |-> "none"]
    /\ now = readInterval
    /\ serialIn = <<>>
    /\ serial1In = <<>>
    /\ pc = "sections"
    /\ nCommands = 0
    /\ nSensorChanges = 0
    /\ nElapses = 0
    /\ nDelays = 0

AggNext == LoopSections

AggSpec == AggInit /\ [][AggNext]_vars

\* the segments of section s whose last reading is not the sentinel
ValidSegments(s) ==
    {i \in SectionSegments(s) : cachedTemperatures[i] # F(-999)}

ActiveValidSegments(s) == {i \in ValidSegments(s) : activeSegments[i]}

\* the sum of the last readings of the segments of S
RECURSIVE SumOfReadings(_)
SumOfReadings(S) ==
    IF S = {} THEN F(0)
    ELSE LET i == CHOOSE j \in S : \A k \in S : j <= k
         IN  FAdd(cachedTemperatures[i], SumOfReadings(S \ {i}))

MeanOfReadings(S) == FDiv(SumOfReadings(S), F(Cardinality(S)))

C10_WitnessFallback ==
    /\ pc = "status"
    /\ \E s \in Sections :
         /\ \E i \in SectionSegments(s) : activeSegments[i]
         /\ ActiveValidSegments(s) = {}
         /\ ValidSegments(s) # {}
         /\ avgTempSent[s] = MeanOfReadings(ValidSegments(s))

\* the aggregator reported the default for a section without a valid reading
C10_WitnessDefault ==
    /\ pc = "status"
    /\ \E s \in Sections : ValidSegments(s) = {} /\ avgTempSent[s] = F(25)


(***************************************************************************)
(* readTemperature on the sensor of segment 1 alone: the sensor at any of  *)
(* the inputs below, calls at times one millisecond, one millisecond less  *)
(* than a read interval and a read interval apart.                         *)
(***************************************************************************)
\* calls of millis() that return a later time, in one run
MaxReadElapses == 2

\* by how much the time of a call is later than that of the call before
ReadSteps == {1, readInterval - 1, readInterval}

\* the ADC extreme 0, every table entry, its successor and its predecessor
ReadRawValues ==
    {0}
    \cup {tempTable[k][1] : k \in 1..tempTableSize}
    \cup {tempTable[k][1] + 1 : k \in 1..(tempTableSize - 1)}
    \cup {tempTable[k][1] - 1 : k \in 2..tempTableSize}

ReadInit ==
    /\ thermalSafetyTriggered = FALSE
    /\ debugMode = FALSE
    /\ activeSegments = [i \in Segments |-> FALSE]
    /\ relayOut = setupPins
    /\ targetTemp = [s \in Sections |-> F(0)]
    /\ cachedTemperatures = [i \in Segments |-> F(0)]
    /\ lastReadTime = [i \in Segments |-> 0]
    /\ pidIntegral = [i \in Segments |-> F(0)]
    /\ pidLastError = [i \in Segments |-> F(0)]
    /\ pidLastUpdate = [i \in Segments |-> 0]
    /\ pwmMinValue = 0
    /\ pwmMaxValue = 255
    /\ tempMin = F(0)
    /\ tempMax = F(280)
    /\ pwmOut = [s \in Sections |-> 0]
    /\ avgTempSent = [s \in Sections |-> NaN]
    /\ alert = 0
    /\ flashBeforeTable \in FlashWords
    /\ reply = [chan |-> "none", kind |-> "none"]
    /\ now = 0
    /\ \E raw \in ReadRawValues :
         analogIn = [i \in Segments |-> IF i = 0 THEN raw ELSE AmbientRaw]
    /\ serialIn = <<>>
    /\ serial1In = <<>>
    /\ pc = "read"
    /\ nCommands = 0
    /\ nSensorChanges = 0
    /\ nElapses = 0
    /\ nDelays = 0

\* a call of readTemperature for the sensor of segment 1
ReadCall ==
    /\ pc = "read"
    /\ Commit(readTemperature(G, 0, now, analogIn[0]).g)
    /\ UNCHANGED <<envVars, countVars, now, pc>>

\* the analog input of the sensor changes between two calls
ReadSensor(raw) ==
    /\ pc = "read"
    /\ analogIn[0] # raw
    /\ analogIn' = [analogIn EXCEPT ![0] = raw]
    /\ UNCHANGED <<progVars, serialIn, serial1In, countVars, now, pc>>

\* time passes between two calls
ReadElapse(dt) ==
    /\ pc = "read"
    /\ nElapses < MaxReadElapses
    /\ now' = now + dt
    /\ nElapses' = nElapses + 1
    /\ UNCHANGED <<progVars, envVars, nCommands, nSensorChanges, nDelays, pc>>

ReadNext ==
    \/ ReadCall
    \/ \E raw \in ReadRawValues : ReadSensor(raw)
    \/ \E dt \in ReadSteps : ReadElapse(dt)

ReadSpec == ReadInit /\ [][ReadNext]_vars


\* the call of readTemperature for segment 1 in this state takes a sample
FreshSample == now - lastReadTime[0] >= 1000

\* what that call returns and the globals it leaves
ReadOutcome == readTemperature(G, 0, now, analogIn[0])

\* C14: once a call has sampled the sensor of a segment at time t1, a call
\* at a time less than 1000 after t1 returns the cached value, which is the
\* value returned at t1, and leaves the cache and the timestamp as they
\* are, whatever the sensor's input has become.
C14_CachedWithinInterval ==
    /\ \A raw \in ReadRawValues :
          LET r == readTemperature(G, 0, now, raw)
          IN  r.temp = r.g.cachedTemperatures[0]
    /\ (lastReadTime[0] # 0 /\ now - lastReadTime[0] < 1000)
          => \A raw \in ReadRawValues :
                readTemperature(G, 0, now, raw)
                    = [temp |-> cachedTemperatures[0], g |-> G]

\* 999 ms after a sample of 120 degrees the sensor is at 30 degrees
C14_Witness ==
    /\ lastReadTime[0] # 0
    /\ now - lastReadTime[0] = 999
    /\ cachedTemperatures[0] = F(120)
    /\ analogIn[0] = 800

\* C15: a call that samples a raw value <= 0 or >= 1023 returns -999,
\* stores -999 in the segment's cache, and changes nothing else but the
\* timestamp: no table entry enters the result.
C15_OutOfRangeGivesSentinel ==
    (FreshSample /\ (analogIn[0] <= 0 \/ analogIn[0] >= 1023))
        => ReadOutcome =
              [temp |-> F(-999),
               g    |-> [G EXCEPT !.lastReadTime[0] = now,
                                  !.cachedTemperatures[0] = F(-999)]]

\* a sample of the raw value 1023 has just stored the sentinel
C15_Witness ==
    /\ analogIn[0] = 1023
    /\ now > 0
    /\ lastReadTime[0] = now
    /\ cachedTemperatures[0] = F(-999)

\* raw lies strictly between the ADC values of entries k and k + 1
Between(raw, k) == tempTable[k][1] < raw /\ raw < tempTable[k + 1][1]

\* the point of the line through entries k and k + 1 at raw
Linear(raw, k) ==
    Frac((tempTable[k][2] * (tempTable[k + 1][1] - tempTable[k][1]))
            + ((raw - tempTable[k][1]) * (tempTable[k + 1][2] - tempTable[k][2])),
         tempTable[k + 1][1] - tempTable[k][1])

\* C16: a call that samples a raw value strictly between the ADC values of
\* two adjacent table entries returns the linear interpolation of those two
\* entries, which lies between their temperatures.
C16_InterpolationIsLinear ==
    \A k \in 1..(tempTableSize - 1) :
        (FreshSample /\ Between(analogIn[0], k))
            => /\ ReadOutcome.temp = Linear(analogIn[0], k)
               /\ ~FLt(ReadOutcome.temp, F(tempTable[k + 1][2]))
               /\ ~FGt(ReadOutcome.temp, F(tempTable[k][2]))

\* a sample of the raw value 201 has just stored 249.5 degrees
C16_Witness ==
    /\ analogIn[0] = 201
    /\ now > 0
    /\ lastReadTime[0] = now
    /\ cachedTemperatures[0] = Frac(499, 2)

\* a call that samples the ADC value of entry k returns its temperature
BreakpointExact(k) ==
    (FreshSample /\ analogIn[0] = tempTable[k][1])
        => ReadOutcome.temp = F(tempTable[k][2])

\* C17: for every entry of the table, the first and the last included, a
\* call that samples the entry's ADC value returns the entry's temperature.
C17_BreakpointsExact == \A k \in 1..tempTableSize : BreakpointExact(k)

\* the part of C17 about the entries other than the first and the last
InnerBreakpointsExact == \A k \in 2..(tempTableSize - 1) : BreakpointExact(k)

\* both indices the interpolation reads for raw are inside the table
IndicesInside(raw) ==
    LET i == TableScan(0, raw)
    IN  /\ i \in 0..(tempTableSize - 1)
        /\ (i - 1) \in 0..(tempTableSize - 1)

\* C18: for a sampled raw value in 1..1022 the scan ends with both indices
\* it reads, i and i - 1, inside the table.
C18_TableIndicesInside ==
    (FreshSample /\ analogIn[0] \in 1..1022) => IndicesInside(analogIn[0])

\* the part of C18 about the raw values above the first entry
IndicesInsideAboveFirstEntry ==
    (FreshSample /\ analogIn[0] \in 2..1022) => IndicesInside(analogIn[0])


\* updateAllSections has just written the four outbound analog channels
SectionsReported == pc = "status"

\* every channel value lies in [pwmMinValue, pwmMaxValue]
OutputsWithinRange ==
    \A s \in Sections : pwmMinValue <= pwmOut[s] /\ pwmOut[s] <= pwmMaxValue

\* C11: under every PWM range configuration that SET_PWM_RANGE can set, and
\* under the default one, the value written to a section's outbound analog
\* channel lies in the closed interval [pwm_min, pwm_max].
C11_OutputWithinPWMRange == SectionsReported => OutputsWithinRange

\* the part of C11 about the configurations with pwm_min <= pwm_max
OutputWithinOrderedPWMRange ==
    (SectionsReported /\ pwmMinValue <= pwmMaxValue) => OutputsWithinRange

\* no section with a higher temperature has a higher channel value, and the
\* ends of the temperature range map to the opposite ends of the PWM range
InvertedMapping ==
    /\ \A s1, s2 \in Sections :
          ~FGt(avgTempSent[s1], avgTempSent[s2]) => pwmOut[s2] <= pwmOut[s1]
    /\ TempToPWM(G, tempMin) = pwmMaxValue
    /\ TempToPWM(G, tempMax) = pwmMinValue

\* C12: under a fixed PWM range configuration the reported value does not
\* increase with the section temperature: for t1 <= t2 the value for t2 is
\* at most the value for t1; temp_min maps to pwm_max, temp_max to pwm_min.
C12_MappingInverted == SectionsReported => InvertedMapping

\* the part of C12 about the default configuration
MappingInvertedByDefault ==
    (SectionsReported /\ pwmMinValue = 0 /\ pwmMaxValue = 255
        /\ tempMin = F(0) /\ tempMax = F(280)) => InvertedMapping

\* C13: every loop iteration, with the latch clear or set, goes through the
\* section reporting that drives the four outbound analog channels.
C13_EveryIterationReports ==
    [][(pc = "top" /\ pc' # "top") => pc' = "sections"]_vars

\* the part of C13 about the iterations with the latch clear
ClearIterationReports ==
    [][(pc = "top" /\ pc' # "top" /\ ~thermalSafetyTriggered)
          => pc' = "sections"]_vars


(***************************************************************************)
(* calculatePID on its own: the PID state of segment 1 and the target of   *)
(* its section are drawn from small sets, and the loop body of             *)
(* controlHeatingWithPID for that segment is called at chosen times        *)
(***************************************************************************)
MaxPIDElapses == 2

PIDSteps == {DEBUG_INTERVAL, readInterval}

PIDIntegrals == {F(0), F(-5), F(5)}

PIDLastErrors == {F(0), F(-30)}

PIDTargets == {F(0), F(60)}

PIDRawValues == {0, 500, 700, 800}

PIDInit ==
    /\ thermalSafetyTriggered = FALSE
    /\ debugMode = FALSE
    /\ activeSegments = [i \in Segments |-> i = 0]
    /\ relayOut = setupPins
    /\ \E target \in PIDTargets :
         targetTemp = [s \in Sections |-> IF s = 0 THEN target ELSE F(0)]
    /\ cachedTemperatures = [i \in Segments |-> F(0)]
    /\ lastReadTime = [i \in Segments |-> 0]
    /\ \E x \in PIDIntegrals :
         pidIntegral = [i \in Segments |-> IF i = 0 THEN x ELSE F(0)]
    /\ \E e \in PIDLastErrors :
         pidLastError = [i \in Segments |-> IF i = 0 THEN e ELSE F(0)]
    /\ pidLastUpdate = [i \in Segments |-> 0]
    /\ pwmMinValue = 0
    /\ pwmMaxValue = 255
    /\ tempMin = F(0)
    /\ tempMax = F(280)
    /\ pwmOut = [s \in Sections |-> 0]
    /\ avgTempSent = [s \in Sections |-> NaN]
    /\ alert = 0
    /\ flashBeforeTable \in FlashWords
    /\ reply = [chan |-> "none", kind |-> "none"]
    /\ now = 0
    /\ \E raw \in PIDRawValues :
         analogIn = [i \in Segments |-> IF i = 0 THEN raw ELSE AmbientRaw]
    /\ serialIn = <<>>
    /\ serial1In = <<>>
    /\ pc = "pidcall"
    /\ nCommands = 0
    /\ nSensorChanges = 0
    /\ nElapses = 0
    /\ nDelays = 0

\* the body of the loop of controlHeatingWithPID for segment 1
PIDCall ==
    /\ pc = "pidcall"
    /\ Commit(PIDLoop(G, 0, 0, 0, now, analogIn))
    /\ UNCHANGED <<envVars, countVars, now, pc>>

\* the analog input of the sensor changes between two calls
PIDSensor(raw) ==
    /\ pc = "pidcall"
    /\ analogIn[0] # raw
    /\ analogIn' = [analogIn EXCEPT ![0] = raw]
    /\ UNCHANGED <<progVars, serialIn, serial1In, countVars, now, pc>>

\* time passes between two calls
PIDElapse(dt) ==
    /\ pc = "pidcall"
    /\ nElapses < MaxPIDElapses
    /\ now' = now + dt
    /\ nElapses' = nElapses + 1
    /\ UNCHANGED <<progVars, envVars, nCommands, nSensorChanges, nDelays, pc>>

PIDNext ==
    \/ PIDCall
    \/ \E raw \in PIDRawValues : PIDSensor(raw)
    \/ \E dt \in PIDSteps : PIDElapse(dt)

PIDSpec == PIDInit /\ [][PIDNext]_vars

\* the temperature the control pass reads for segment 1 in this state
PIDCurrentTemp == readTemperature(G, 0, now, analogIn[0]).temp

\* what calculatePID returns for segment 1 in this state, and the globals
\* it leaves
PIDCallResult ==
    LET r == readTemperature(G, 0, now, analogIn[0])
    IN  calculatePID(r.g, 0, r.temp, r.g.targetTemp[0], now)

\* x is a number of the closed interval [0, 1]
InUnitInterval(x) == ~IsNaN(x) /\ ~FLt(x, F(0)) /\ ~FGt(x, F(1))

\* C19: for every PID state of a segment, every current temperature, every
\* target and every call time, calculatePID returns a value in [0, 1].
C19_PIDOutputInUnitInterval == InUnitInterval(PIDCallResult.out)

\* the part of C19 about the calls made some time after the last update
PIDOutputInUnitIntervalAfterTime ==
    now > pidLastUpdate[0] => InUnitInterval(PIDCallResult.out)

\* the output without a derivative contribution
ProportionalAndIntegral ==
    LET error == FSub(targetTemp[0], PIDCurrentTemp)
    IN  FConstrain(FAdd(FMul(pidKp, error), FMul(pidKi, pidIntegral[0])),
                   F(0), F(1))

\* C20: a call at a time equal to the segment's last PID update (dt = 0)
\* divides by nothing: the derivative contributes 0 to the output, the
\* integral keeps a defined value, and the result is in [0, 1].
C20_ZeroIntervalNoDerivative ==
    now = pidLastUpdate[0]
        => /\ PIDCallResult.out = ProportionalAndIntegral
           /\ PIDCallResult.g.pidIntegral[0] = pidIntegral[0]
           /\ InUnitInterval(PIDCallResult.out)

\* the part of C20 about the integral
ZeroIntervalKeepsIntegral ==
    now = pidLastUpdate[0] => PIDCallResult.g.pidIntegral[0] = pidIntegral[0]


\* the activation lines with the segments they name
Activations ==
    {<<T_ON_ALL, Segments>>} \cup {<<T_ON(n), {n - 1}>> : n \in 1..NUM_SEGMENTS}

\* the deactivation lines with the segments they name
Deactivations ==
    {<<T_OFF_ALL, Segments>>} \cup {<<T_OFF(n), {n - 1}>> : n \in 1..NUM_SEGMENTS}

\* g has the segments of S active and every other flag as in this state
ActivatedIn(g, S) ==
    g.activeSegments = [i \in Segments |-> (i \in S) \/ activeSegments[i]]

\* both handlers set the active flags of the segments the line names
ActivatedOnBothChannels(a) ==
    /\ ActivatedIn(processSerialCommands(G, a[1], now, analogIn), a[2])
    /\ ActivatedIn(processExternalCommand(G, a[1], now, analogIn), a[2])

\* both handlers leave every relay output as it was
RelaysKeptOnBothChannels(a) ==
    /\ processSerialCommands(G, a[1], now, analogIn).relayOut = relayOut
    /\ processExternalCommand(G, a[1], now, analogIn).relayOut = relayOut

\* C21: with the latch clear, ON n for n in 1..16 and ON ALL, on either
\* channel, set the active flags of the segments they name and leave every
\* relay output as it was.
C21_ActivationLeavesRelays ==
    ~thermalSafetyTriggered =>
        \A a \in Activations :
            ActivatedOnBothChannels(a) /\ RelaysKeptOnBothChannels(a)

\* the part of C21 about the active flags
ActivationSetsFlags ==
    ~thermalSafetyTriggered => \A a \in Activations : ActivatedOnBothChannels(a)

\* g has the segments of S inactive with their relays off, and the latch of
\* this state
DeactivatedIn(g, S) ==
    /\ \A i \in S : ~g.activeSegments[i] /\ g.relayOut[i] = HIGH
    /\ g.thermalSafetyTriggered = thermalSafetyTriggered

\* both handlers deactivate the segments the line names
DeactivatedOnBothChannels(d) ==
    /\ DeactivatedIn(processSerialCommands(G, d[1], now, analogIn), d[2])
    /\ DeactivatedIn(processExternalCommand(G, d[1], now, analogIn), d[2])

\* C22: in every state, latch set or clear, OFF n for n in 1..16 leaves
\* segment n inactive with its relay HIGH, OFF ALL does so for all 16
\* segments, and neither changes the latch.
C22_DeactivationSynchronous ==
    \A d \in Deactivations : DeactivatedOnBothChannels(d)

\* the part of C22 about OFF n
OffSegmentSynchronous ==
    \A d \in Deactivations : d[1] # T_OFF_ALL => DeactivatedOnBothChannels(d)


(***************************************************************************)
(* readTargetTemperature on its own.  pulse is what pulseIn returns: the   *)
(* width of the pulse in microseconds, or 0 when PWM_TIMEOUT has passed    *)
(* without a pulse                                                         *)
(***************************************************************************)
PWM_TIMEOUT == 25000

\* the value returned, and the globals with the error line printed
readTargetTemperature(g, pulse) ==
    LET pwmValue == LongToInt(pulse)
    IN  IF pwmValue < g.pwmMinValue \/ pwmValue > g.pwmMaxValue
        THEN [temp |-> F(-999), g |-> Reply(g, "local", "pwmerror")]
        ELSE [temp |-> F(Map(pwmValue, g.pwmMinValue, g.pwmMaxValue,
                             FTrunc(g.tempMin), FTrunc(g.tempMax))),
              g    |-> g]

\* SET_PWM_RANGE lines handled before the calls in one run
MaxTargetCommands == 2

\* the pulse widths measured: none within the timeout, and some widths
PulseWidths == {0, 100, 255, 1500, PWM_TIMEOUT - 1}

TargetLines ==
    {T_SET_PWM_RANGE(a, b, c, d) :
        a \in {0, 100, 1000}, b \in {255, 2000}, c \in {0, 20}, d \in {100, 280}}
    \cup {T_SET_PWM_RANGE(200, 0, 0, 100)}

\* a SET_PWM_RANGE line is handled
TargetConfigure(line) ==
    /\ nCommands < MaxTargetCommands
    /\ Commit(processSerialCommands(G, line, now, analogIn))
    /\ nCommands' = nCommands + 1
    /\ UNCHANGED <<envVars, nSensorChanges, nElapses, nDelays, now, pc>>

\* a call of readTargetTemperature
TargetCall(pulse) ==
    /\ Commit(readTargetTemperature(G, pulse).g)
    /\ UNCHANGED <<envVars, countVars, now, pc>>

TargetNext ==
    \/ \E line \in TargetLines : TargetConfigure(line)
    \/ \E pulse \in PulseWidths : TargetCall(pulse)

TargetSpec == Init /\ [][TargetNext]_vars

\* C23: when the bounded wait of readTargetTemperature times out (pulseIn
\* returns 0), the call returns the sentinel -999 under every PWM range
\* configuration, the default one with pwm_min = 0 included.
C23_TimeoutGivesSentinel == readTargetTemperature(G, 0).temp = F(-999)

\* the part of C23 about the configurations that exclude the width 0
TimeoutGivesSentinelOutsideRange ==
    (pwmMinValue > 0 \/ pwmMaxValue < 0)
        => readTargetTemperature(G, 0).temp = F(-999)


(***************************************************************************)
(* The operator's scenario: ON ALL, STATUS, RESET_SAFETY, ON 5 sent one    *)
(* after the other, each on either channel once the line before has been   *)
(* taken, while the sensor of segment 5 goes above the ceiling and back     *)
(***************************************************************************)
Script == <<T_ON_ALL, W_STATUS, W_RESET_SAFETY, T_ON(5)>>

\* calls of delay(DEBUG_INTERVAL) in one run of the scenario
MaxScenarioDelays == 5

\* changes of the sensor of segment 5 in one run of the scenario
MaxScenarioSensorChanges == 2

\* the order of the scenario: ON ALL is sent before the trip, STATUS once
\* the scan has tripped on segment 5
ScriptTurn ==
    /\ nCommands = 0 => ~thermalSafetyTriggered
    /\ nCommands = 1 => thermalSafetyTriggered /\ alert = 5

\* the next line of the script arrives on the local control link
ScenarioSerialArrive ==
    /\ pc = "top"
    /\ nCommands < Len(Script)
    /\ ScriptTurn
    /\ serialIn = <<>> /\ serial1In = <<>>
    /\ serialIn' = <<Script[nCommands + 1]>>
    /\ nCommands' = nCommands + 1
    /\ UNCHANGED <<progVars, analogIn, serial1In, nSensorChanges, nElapses,
                   nDelays, now, pc>>

\* the next line of the script arrives on the uplink
ScenarioSerial1Arrive ==
    /\ pc = "uplink"
    /\ nCommands < Len(Script)
    /\ ScriptTurn
    /\ serialIn = <<>> /\ serial1In = <<>>
    /\ serial1In' = <<Script[nCommands + 1]>>
    /\ nCommands' = nCommands + 1
    /\ UNCHANGED <<progVars, analogIn, serialIn, nSensorChanges, nElapses,
                   nDelays, now, pc>>

\* the analog input of the sensor of segment 5 changes
ScenarioSensor(raw) ==
    /\ nSensorChanges < MaxScenarioSensorChanges
    /\ analogIn[4] # raw
    /\ analogIn' = [analogIn EXCEPT ![4] = raw]
    /\ nSensorChanges' = nSensorChanges + 1
    /\ UNCHANGED <<progVars, serialIn, serial1In, nCommands, nElapses, nDelays,
                   now, pc>>

\* the delay of the else branch
ScenarioTrippedDelay ==
    /\ pc = "tripped"
    /\ nDelays < MaxScenarioDelays
    /\ now' = now + DEBUG_INTERVAL
    /\ nDelays' = nDelays + 1
    /\ pc' = "delay"
    /\ UNCHANGED <<progVars, envVars, nCommands, nSensorChanges, nElapses>>

\* the general delay at the end of both branches
ScenarioDelay ==
    /\ pc = "delay"
    /\ nDelays < MaxScenarioDelays
    /\ now' = now + DEBUG_INTERVAL
    /\ nDelays' = nDelays + 1
    /\ pc' = "uplink"
    /\ UNCHANGED <<progVars, envVars, nCommands, nSensorChanges, nElapses>>

ScenarioNext ==
    \/ ScenarioSerialArrive
    \/ ScenarioSerial1Arrive
    \/ \E raw \in {450, AmbientRaw} : ScenarioSensor(raw)
    \/ LoopCommands
    \/ LoopTripped
    \/ ScenarioTrippedDelay
    \/ LoopSections
    \/ LoopStatus
    \/ LoopPID
    \/ LoopSafety
    \/ LoopDebug
    \/ ScenarioDelay
    \/ LoopUplink

ScenarioSpec == Init /\ [][ScenarioNext]_vars

\* loop() takes this line from one of the two channels and handles it
Handles(line) == SerialHandles(line) \/ UplinkHandles(line)

\* what the lines of the script do when they are handled: STATUS after the
\* trip on segment 5 finds the latch set and no segment active,
\* RESET_SAFETY clears the latch, ON 5 with the latch clear activates
\* segment 5
ScriptEffects ==
    /\ (Handles(W_STATUS) /\ alert = 5)
          => thermalSafetyTriggered /\ AllInactive
    /\ Handles(W_RESET_SAFETY) => ~thermalSafetyTriggered'
    /\ (Handles(T_ON(5)) /\ ~thermalSafetyTriggered)
          => ~thermalSafetyTriggered' /\ activeSegments'[4]

\* an iteration that starts with a line of the script waiting on the local
\* control link takes it
LocalLineTaken ==
    (pc = "top" /\ pc' # "top" /\ serialIn # <<>>) => serialIn' = <<>>

\* C24: in the scenario ON ALL, trip on segment 5, STATUS, RESET_SAFETY,
\* ON 5, every line is processed by the tick that finds it waiting, STATUS
\* finds the latch set and all 16 segments inactive, RESET_SAFETY is
\* accepted and ON 5 leaves the latch clear and segment 5 active.
C24_ScenarioCompletes == [][LocalLineTaken /\ ScriptEffects]_vars

\* the part of C24 about what the lines do once they are handled
ScriptEffectsHold == [][ScriptEffects]_vars

\* the scenario has run to its end with the lines sent on the uplink
ScenarioCompleted ==
    /\ nCommands = Len(Script)
    /\ serialIn = <<>> /\ serial1In = <<>>
    /\ alert = 5
    /\ reply = [chan |-> "uplink", kind |-> "activated"]
    /\ ~thermalSafetyTriggered
    /\ activeSegments[4]


\* a step from position a leads to position b
Then(a, b) == (pc = a /\ pc' # a) => pc' = b

\* from the section update to the end of the delay no line is taken from a
\* receive buffer
NoIntakeInsideTick ==
    pc \in {"sections", "status", "pid", "safety", "debug", "delay"}
        => UNCHANGED <<serialIn, serial1In>>

\* C25: a tick goes through its phases in the order command intake, section
\* update, relay control pass, status emission, safety scan, diagnostics,
\* delay; the safety scan comes after the relay control pass and no command
\* is taken between the phases.
C25_PhaseOrder ==
    [][/\ (pc = "top" /\ ~thermalSafetyTriggered /\ pc' # "top")
             => pc' = "sections"
       /\ Then("sections", "pid")
       /\ Then("pid", "status")
       /\ Then("status", "safety")
       /\ Then("safety", "debug")
       /\ Then("debug", "delay")
       /\ NoIntakeInsideTick]_vars

\* C25 with the order of the code: the status emission comes between the
\* section update, which holds the hysteresis pass, and the PID pass; the
\* safety scan comes after both passes; the uplink is read after the delay.
C25_PhaseOrderOfLoop ==
    [][/\ (pc = "top" /\ ~thermalSafetyTriggered /\ pc' # "top")
             => pc' = "sections"
       /\ Then("sections", "status")
       /\ Then("status", "pid")
       /\ Then("pid", "safety")
       /\ Then("safety", "debug")
       /\ Then("debug", "delay")
       /\ Then("delay", "uplink")
       /\ Then("uplink", "top")
       /\ NoIntakeInsideTick]_vars

\* a tick that took DEBUG ON at its intake has run all its phases, the
\* diagnostics included, and waits at the uplink intake
C25_Witness ==
    /\ pc = "uplink"
    /\ ~thermalSafetyTriggered
    /\ debugMode
    /\ reply = [chan |-> "local", kind |-> "debug"]
    /\ nDelays = 1


\* the pulse widths of a setpoint signal that is present on its channel
SetpointWidths == PulseWidths \ {0}

\* the PWM range is the one of start-up, so every setpoint sampled so far
\* was mapped with it
DefaultRange ==
    pwmMinValue = 0 /\ pwmMaxValue = 255 /\ tempMin = F(0) /\ tempMax = F(280)

\* C26: a tick reads the four section targets from the inbound setpoint
\* channels before it controls, so at the PID pass the target of a section
\* is what readTargetTemperature gives for a pulse on its channel, sampled
\* in this tick or in an earlier one.
C26_TargetsAreSampled ==
    (pc = "pid" /\ DefaultRange) =>
        \A s \in Sections :
            \E w \in SetpointWidths :
                targetTemp[s] = readTargetTemperature(G, w).temp

\* the target of every section is the initial 0 in every state
TargetsStayZero == \A s \in Sections : targetTemp[s] = F(0)


\* the step sets the latch
LatchSet == ~thermalSafetyTriggered /\ thermalSafetyTriggered'

\* the step clears the latch
LatchCleared == thermalSafetyTriggered /\ ~thermalSafetyTriggered'

\* the step is a safety scan that has read a segment above the ceiling
ScanSawViolation ==
    /\ pc = "safety"
    /\ alert' \in 1..NUM_SEGMENTS
    /\ FGt(cachedTemperatures'[alert' - 1], F(SAFETY_TEMP_MAX))

\* C27: the latch starts false; a step sets it only if it is the safety
\* scan reading a segment above the ceiling, and a step clears it only if
\* it handles RESET_SAFETY; every other step leaves it as it is.
C27_LatchSetByScanClearedByReset ==
    /\ ~thermalSafetyTriggered
    /\ [][/\ LatchSet => ScanSawViolation
          /\ LatchCleared => Handles(W_RESET_SAFETY)]_vars

\* the scan has set the latch on segment 5 and RESET_SAFETY has cleared it
C27_Witness ==
    /\ alert = 5
    /\ FGt(cachedTemperatures[4], F(SAFETY_TEMP_MAX))
    /\ reply.kind = "reset"
    /\ ~thermalSafetyTriggered


\* the reading a call of readTemperature for segment i + 1 gives in this
\* state
Reading(i) == readTemperature(G, i, now, analogIn[i]).temp

\* C28: when the safety scan trips on segment k, no segment before k has a
\* reading above the ceiling, segment k has one, and no segment after k is
\* read: the cache entries and the timestamps after k are as before the scan.
C28_ScanStopsAtFirstViolation ==
    [][(pc = "safety" /\ LatchSet) =>
          LET k == alert' - 1
          IN  /\ k \in Segments
              /\ \A i \in Segments :
                    i < k => ~FGt(Reading(i), F(SAFETY_TEMP_MAX))
              /\ FGt(Reading(k), F(SAFETY_TEMP_MAX))
              /\ \A i \in Segments :
                    i > k => /\ cachedTemperatures'[i] = cachedTemperatures[i]
                             /\ lastReadTime'[i] = lastReadTime[i]]_vars

\* the scan has tripped on segment 1 and has not read segment 2, which is
\* above the ceiling too and was due for a sample
C28_Witness ==
    /\ pc = "debug"
    /\ thermalSafetyTriggered
    /\ alert = 1
    /\ lastReadTime[0] = now
    /\ analogIn[1] = 450
    /\ now - lastReadTime[1] >= readInterval


\* C29: in every reachable state the PWM range configuration is ordered:
\* pwm_min < pwm_max and temp_min < temp_max; a SET_PWM_RANGE line whose
\* values are not ordered leaves the configuration as it was.
C29_RangeStaysOrdered ==
    pwmMinValue < pwmMaxValue /\ FLt(tempMin, tempMax)

\* the configuration is the one of start-up or the four numbers of one of
\* the SET_PWM_RANGE lines sent, whatever their order
RangeIsDefaultOrAsSent ==
    \/ DefaultRange
    \/ <<pwmMinValue, pwmMaxValue, tempMin, tempMax>>
          \in {<<0, 200, F(0), F(100)>>, <<200, 0, F(0), F(100)>>,
               <<0, 255, F(0), F(1)>>}


\* the avgTemp of controlHeating for section s: the sum of the readings of
\* the active segments over their number, 0 without an active segment
HeatingMean(s) ==
    LET r == HeatingSumLoop(G, s * 4, (s * 4) + 3, [sum |-> F(0), count |-> 0],
                            now, analogIn)
    IN  IF r.acc.count > 0 THEN FDiv(r.acc.sum, F(r.acc.count)) ELSE F(0)

\* the mean of the aggregator for section s leaves the sentinel readings out
AggregatorExcludesSentinel(s) ==
    avgTempSent[s] =
        IF ActiveValidSegments(s) # {}
        THEN MeanOfReadings(ActiveValidSegments(s))
        ELSE IF ValidSegments(s) # {}
        THEN MeanOfReadings(ValidSegments(s))
        ELSE F(25)

\* the mean of the heating control for section s leaves them out
HeatingExcludesSentinel(s) ==
    ActiveValidSegments(s) # {}
        => HeatingMean(s) = MeanOfReadings(ActiveValidSegments(s))

\* updateAllSections has just run and the cache holds the readings it took
SectionsJustUpdated ==
    pc = "status" /\ \A i \in Segments : Reading(i) = cachedTemperatures[i]

\* C30: after updateAllSections, the section mean of the aggregator and the
\* section mean of controlHeating are means of non-sentinel readings only:
\* a reading of -999 enters neither the sum nor the count.
C30_MeansExcludeSentinel ==
    SectionsJustUpdated =>
        \A s \in Sections :
            AggregatorExcludesSentinel(s) /\ HeatingExcludesSentinel(s)

\* the part of C30 about the aggregator
AggregatorMeansExcludeSentinel ==
    SectionsJustUpdated => \A s \in Sections : AggregatorExcludesSentinel(s)

\* the part of C30 about controlHeating, for sections without a sentinel
\* reading on an active segment
HeatingMeanWithoutSentinel ==
    SectionsJustUpdated =>
        \A s \in Sections :
            (\A i \in SectionSegments(s) :
                activeSegments[i] => cachedTemperatures[i] # F(-999))
                => HeatingExcludesSentinel(s)


\* the PID state of segment i + 1 is the same after the step
PIDStateKept(i) ==
    /\ pidIntegral'[i] = pidIntegral[i]
    /\ pidLastError'[i] = pidLastError[i]
    /\ pidLastUpdate'[i] = pidLastUpdate[i]

\* the step handles an activation, a deactivation or RESET_SAFETY
HandlesSwitching ==
    \/ \E a \in Activations : Handles(a[1])
    \/ \E d \in Deactivations : Handles(d[1])
    \/ Handles(W_RESET_SAFETY)

pwmRange == <<pwmMinValue, pwmMaxValue, tempMin, tempMax>>

\* C32: the loop is one thread, so a step that changes the PWM range is the
\* command intake of the local link handling a whole line at the top of the
\* loop, a step that changes an active flag is a whole command handled at
\* the top or at the uplink intake or the safety scan setting the latch, and
\* the pass over the sections runs from one range and one set of flags which
\* it leaves as they are.
C32_CommandsBetweenPhases ==
    [][/\ pwmRange' # pwmRange
             => pc = "top" /\ pc' = "sections"
                 /\ \E line \in Lines : SerialHandles(line)
       /\ activeSegments' # activeSegments
             => \/ \E line \in Lines : Handles(line)
                \/ pc = "safety" /\ thermalSafetyTriggered'
       /\ pc = "sections"
             => pwmRange' = pwmRange /\ activeSegments' = activeSegments]_vars

\* the pass over the sections has just run from a range set by a command
C32_Witness ==
    /\ pc = "status"
    /\ pwmRange = <<200, 0, F(0), F(100)>>
    /\ \A i \in Segments : Reading(i) = cachedTemperatures[i]


\* text that is no command of the table and begins like ON n and OFF n
T_ONX(n) == <<"O", "N", "X", " ">> \o Dec(n)

T_OFFX(n) == <<"O", "F", "F", "X", " ">> \o Dec(n)

\* lines that are not a command of the table
UnknownLines == {T_UNKNOWN, T_ONX(5), T_OFFX(5)}

\* the lines that are to change nothing of the actuation
QuietLines == {W_STATUS, W_HELP, T_DEBUG_ON, T_DEBUG_OFF} \cup UnknownLines

\* the flags, relays, latch, range and PID state of g are those of the state
QuietFrame(g) ==
    /\ SameActuation(g)
    /\ <<g.pwmMinValue, g.pwmMaxValue, g.tempMin, g.tempMax>> = pwmRange
    /\ g.pidIntegral = pidIntegral
    /\ g.pidLastError = pidLastError
    /\ g.pidLastUpdate = pidLastUpdate

\* what the line may change besides the reply
QuietEffect(line, g) ==
    /\ QuietFrame(g)
    /\ line \in {T_DEBUG_ON, T_DEBUG_OFF}
          => [g EXCEPT !.reply = reply, !.debugMode = debugMode] = G
    /\ line = W_STATUS
          => [g EXCEPT !.reply = reply,
                       !.cachedTemperatures = cachedTemperatures,
                       !.lastReadTime = lastReadTime] = G
    /\ line \notin {T_DEBUG_ON, T_DEBUG_OFF, W_STATUS} => NoStateChange(g)

QuietOnBothChannels(line) ==
    /\ QuietEffect(line, processSerialCommands(G, line, now, analogIn))
    /\ QuietEffect(line, processExternalCommand(G, line, now, analogIn))

\* C33: in every state, STATUS, HELP, DEBUG ON, DEBUG OFF and every line that
\* is no command of the table leave the active flags, the relay outputs, the
\* latch, the PWM range and the PID state unchanged on either channel; DEBUG
\* ON and DEBUG OFF change the debug flag only, and STATUS the temperature
\* cache only.
C33_QuietLinesChangeNothing == \A line \in QuietLines : QuietOnBothChannels(line)

\* the part of C33 about the four commands and a line that begins like no
\* command
QuietCommandsChangeNothing ==
    \A line \in {W_STATUS, W_HELP, T_DEBUG_ON, T_DEBUG_OFF, T_UNKNOWN} :
        QuietOnBothChannels(line)


\* C34: in every reachable state a segment whose active flag is false has
\* its relay at the off level HIGH.
C34_InactiveRelayOff ==
    \A i \in Segments : ~activeSegments[i] => relayOut[i] = HIGH

\* the part of C34 about the states in which no OFF ALL has been handled
\* and no trip has happened
InactiveRelayOffBeforeDeactivateAll ==
    (~thermalSafetyTriggered /\ reply.kind # "deactivated" /\ reply.kind # "reset")
        => C34_InactiveRelayOff


\* the output calculatePID gives for segment i + 1 in a PID pass run now
PIDOutput(i) ==
    LET r == readTemperature(G, i, now, analogIn[i])
    IN  calculatePID(r.g, i, r.temp,
                     targetTemp[i \div (NUM_SEGMENTS \div NUM_SECTIONS)], now).out

FaultNotSwitchedOn ==
    \A i \in Segments :
        (activeSegments[i] /\ Reading(i) = F(ERROR_TEMP) /\ relayOut[i] = HIGH)
            => relayOut'[i] = HIGH

\* the part of C36 about the hysteresis pass
HysteresisPassSparesFault ==
    [][(pc = "sections" /\ pc' = "status") => FaultNotSwitchedOn]_vars

\* the part of C36 about the PID pass
PIDPassSparesFault ==
    [][(pc = "pid" /\ pc' = "safety") => FaultNotSwitchedOn]_vars

\* C36: neither the hysteresis pass nor the PID pass switches on the relay
\* of an active segment whose reading is the sentinel -999.
C36_FaultNeverHeats ==
    [][((pc = "sections" /\ pc' = "status") \/ (pc = "pid" /\ pc' = "safety"))
          => FaultNotSwitchedOn]_vars


(***************************************************************************)
(* The body of controlHeatingWithPID in the sketch file                    *)
(***************************************************************************)
\* the sketch file's own controlHeatingWithPID, from segment i to segment
\* end: every segment of the section, the analog value as the temperature,
\* and the active flag set from the output
RECURSIVE SketchControlHeatingWithPID(_, _, _, _, _, _)
SketchControlHeatingWithPID(g, section, i, end, t, analog) ==
    IF i > end THEN g
    ELSE LET currentTemp == F(analog[i])
             error       == FSub(g.targetTemp[section], currentTemp)
             integral    == FAdd(g.pidIntegral[i], error)
             derivative  == FSub(error, g.pidLastError[i])
             output      == FAdd(FAdd(FMul(pidKp, error), FMul(pidKi, integral)),
                                 FMul(pidKd, derivative))
             on          == FGt(output, PID_OUTPUT_THRESHOLD)
         IN  SketchControlHeatingWithPID(
                 [g EXCEPT !.pidIntegral[i] = integral,
                           !.pidLastError[i] = error,
                           !.pidLastUpdate[i] = t,
                           !.relayOut[i] = IF on THEN HIGH ELSE LOW,
                           !.activeSegments[i] = on],
                 section, i + 1, end, t, analog)

\* the for loop of loop() over the four sections, calling that body
SketchLoopPID ==
    /\ pc = "pid"
    /\ LET g0 == SketchControlHeatingWithPID(G, 0, 0, 3, now, analogIn)
           g1 == SketchControlHeatingWithPID(g0, 1, 4, 7, now, analogIn)
           g2 == SketchControlHeatingWithPID(g1, 2, 8, 11, now, analogIn)
       IN  Commit(SketchControlHeatingWithPID(g2, 3, 12, 15, now, analogIn))
    /\ pc' = "safety"
    /\ UNCHANGED <<envVars, countVars, now>>

SketchNext ==
    \/ \E line \in Lines : SerialArrive(line)
    \/ \E line \in Lines : Serial1Arrive(line)
    \/ \E group \in SensorGroups, raw \in RawValues : SensorChange(group, raw)
    \/ Elapse
    \/ LoopCommands
    \/ LoopTripped
    \/ LoopTrippedDelay
    \/ LoopSections
    \/ LoopStatus
    \/ SketchLoopPID
    \/ LoopSafety
    \/ LoopDebug
    \/ LoopDelay
    \/ LoopUplink

SketchSpec == Init /\ [][SketchNext]_vars

\* the step handles a whole line or is the safety scan setting the latch
CommandOrTrip ==
    \/ \E line \in Lines : Handles(line)
    \/ pc = "safety" /\ pc' = "debug" /\ thermalSafetyTriggered'

\* C37: the pass over the sections (updateTemperaturePWM and controlHeating)
\* and the PID pass (controlHeatingWithPID) leave the active flags of all 16
\* segments unchanged; an active flag changes only in a step that handles a
\* command or in the safety scan that sets the latch.
C37_PassesKeepActivation ==
    [][/\ ((pc = "sections" /\ pc' = "status") \/ (pc = "pid" /\ pc' = "safety"))
             => activeSegments' = activeSegments
       /\ activeSegments' # activeSegments => CommandOrTrip]_vars


\* the RESET_SAFETY of the script has been handled; the script sends it with
\* the latch set, so it was accepted
ResetAccepted ==
    /\ nCommands >= 3
    /\ serialIn = <<>> /\ serial1In = <<>>

\* the step is a safety scan after the accepted reset, and a reading it has
\* taken is above the ceiling
ScanAfterResetSawViolation ==
    /\ pc = "safety" /\ pc' = "debug"
    /\ ResetAccepted
    /\ \E i \in Segments : FGt(cachedTemperatures'[i], F(SAFETY_TEMP_MAX))

\* C38: the step that handles RESET_SAFETY clears the latch whatever the
\* readings are, and when the safety scan of a control tick after the reset
\* takes a reading above the ceiling, the tick ends with the latch set,
\* every segment inactive and every relay at the off level HIGH, whether or
\* not ON 5 was accepted in between.
C38_InterlockReArms ==
    [][/\ Handles(W_RESET_SAFETY) => ~thermalSafetyTriggered'
       /\ ScanAfterResetSawViolation
             => /\ thermalSafetyTriggered'
                /\ \A i \in Segments : ~activeSegments'[i]
                /\ \A i \in Segments : relayOut'[i] = HIGH]_vars

\* the part of C38 about the latch and the active flags
LatchAndFlagsReArm ==
    [][/\ Handles(W_RESET_SAFETY) => ~thermalSafetyTriggered'
       /\ ScanAfterResetSawViolation
             => /\ thermalSafetyTriggered'
                /\ \A i \in Segments : ~activeSegments'[i]]_vars

\* the latch was reset with segment 5 still hot, ON 5 was accepted, and the
\* scan of the next tick has tripped again
ReArmedAfterOn ==
    /\ pc = "debug"
    /\ nCommands = Len(Script)
    /\ serialIn = <<>> /\ serial1In = <<>>
    /\ reply.kind = "activated"
    /\ analogIn[4] = 450
    /\ thermalSafetyTriggered
    /\ AllInactive


\* a call of readTemperature for segment i + 1 at time t returns the initial
\* cache value 0 and takes no sample
ReturnsInitialCache(i, t) ==
    LET r == readTemperature(G, i, t, analogIn[i])
    IN  r.temp = F(0) /\ r.g = G

\* C39: while less than readInterval = 1000 ms have passed since start,
\* every call of readTemperature, now and at any later time before 1000,
\* returns 0 and takes no sample, whatever the analog input is, and so the
\* latch is clear and a safety scan run at such a time leaves it clear.
C39_StartupWindow ==
    now < readInterval =>
        /\ ~thermalSafetyTriggered
        /\ \A t \in {now, 1, readInterval - 1} :
              /\ \A i \in Segments : ReturnsInitialCache(i, t)
              /\ ~checkThermalSafety(G, t, analogIn).thermalSafetyTriggered

\* a safety scan has run inside the window with the sensor of segment 1 at
\* 135 degrees, and the latch is clear
C39_Witness ==
    /\ pc = "debug"
    /\ now < readInterval
    /\ analogIn[0] = 450
    /\ activeSegments[0]
    /\ ~thermalSafetyTriggered
    /\ cachedTemperatures[0] = F(0)

\* at the end of the window the same scan samples the sensors and trips
WindowEndsAtReadInterval ==
    (now < readInterval /\ analogIn[0] = 450)
        => checkThermalSafety(G, readInterval, analogIn).thermalSafetyTriggered

=============================================================================
